---- MODULE Spec2Model ----
(***************************************************************************)
(* A model of rozelie/cobp: the on-base statistics (OBP, COBP, SOBP), the  *)
(* composite statistics, the two generations of the aggregation layer,    *)
(* the Baseball Reference scrape cache and the fuzzy player lookup.        *)
(*                                                                         *)
(* Ratios are Python floats in the program; here a ratio is the reduced    *)
(* fraction <<numerator, denominator>>, 0.0 being <<0, 1>>.               *)
(***************************************************************************)
EXTENDS Integers, Sequences, FiniteSets, TLC

VARIABLES
    obp_,            \* one OBP record whose attributes are assigned directly
    value_out,       \* the last value read from obp_, or NoCall
    obp_so_far,   \* get_player_to_obp's mapping while it walks the plays
    plays_seen,      \* the plays get_player_to_obp has walked so far, as a bag
    games,           \* the loaded games, each with its chronological plays
    lineup,          \* the players of the loaded games (id and display name)
    out,             \* the last call on the loaded games and what it returned
    one_stats,       \* one PlayerStats of generation B: its eight operands
    derived_out,     \* the last composite statistic queried and its value
    cache_file,      \* the scrape cache on disk: year -> lines of the file
    lru_cache,       \* the memo of get_seasonal_players_stats: year -> table
    last_call,       \* the last call on the scrape cache and what it did
    composite,       \* one OPS/COPS/LOOPS/SOPS object: operands and stored explanation
    composite_out,   \* the last value and explanation read from it
    held,            \* the player_to_stats mapping a caller of display_game holds
    displayed,       \* the last display_game call on it and what it rendered
    run,             \* one run of generation A's main: position, choices, steps so far
    seasonal_df,     \* the seasonal table handed to lookup_player
    lookup_out       \* the last lookup_player call and its outcome

varsValue == <<obp_, value_out>>
varsObp == <<obp_so_far, plays_seen>>
varsGames == <<games, lineup, out>>
varsDerived == <<one_stats, derived_out>>
varsCache == <<cache_file, lru_cache, last_call>>
varsLookup == <<seasonal_df, lookup_out>>
varsMain == <<run>>
varsComposite == <<composite, composite_out>>
varsDisplay == <<held, displayed>>

vars == <<varsValue, varsObp, varsGames, varsDerived, varsCache, varsLookup, varsMain,
         varsComposite, varsDisplay>>

\* ------------------------------------------------------------------ bounds

\* the largest value assigned to one count of an OBP record
MaxCount == 2
\* the number of plays of the game get_player_to_obp walks
MaxObpPlays == 6
\* the number of plays over all loaded games
MaxPlays == 2

\* ------------------------------------------------------------------ values

\* no call made yet
NoCall == [fn |-> "none"]

RECURSIVE Gcd(_, _)
Gcd(a, b) == IF b = 0 THEN a ELSE Gcd(b, a % b)

\* the float n / d, as a reduced fraction (d > 0)
Ratio(n, d) == <<n \div Gcd(n, d), d \div Gcd(n, d)>>

ZeroRatio == <<0, 1>>

\* float addition
RatioAdd(x, y) == Ratio(x[1] * y[2] + y[1] * x[2], x[2] * y[2])

\* ------------------------------------------------------------------ OBP

\* OBP(): every count 0
NewOBP ==
    [hits |-> 0, walks |-> 0, hit_by_pitches |-> 0, at_bats |-> 0, sacrifice_flys |-> 0]

OBPNumerator(o) == o.hits + o.walks + o.hit_by_pitches

OBPDenominator(o) == o.at_bats + o.walks + o.hit_by_pitches + o.sacrifice_flys

OBPValueNoSacrificeFlys(o) ==
    IF o.at_bats + o.walks + o.hit_by_pitches = 0
    THEN ZeroRatio
    ELSE Ratio(OBPNumerator(o), o.at_bats + o.walks + o.hit_by_pitches)

\* OBP.value
OBPValue(o) ==
    IF OBPDenominator(o) = 0
    THEN ZeroRatio
    ELSE Ratio(OBPNumerator(o), OBPDenominator(o))

\* ------------------------------------------------------------------ plays

\* the reserved id of the synthetic team player
TEAM_PLAYER_ID == "Team"

\* the ids of mock_player and mock_player_2
PlayerIds == {"player", "player_2"}

\* BatterEvent values; SACRIFICE_FLY is a fielded out carrying the
\* sacrifice-fly modifier
BatterEvents ==
    {"SINGLE", "STRIKEOUT", "WALK", "HIT_BY_PITCH", "SACRIFICE_FLY", "NO_PLAY"}

IsHit(ev) == ev = "SINGLE"

\* a qualifying on-base event
IsOnBase(ev) == ev \in {"SINGLE", "WALK", "HIT_BY_PITCH"}

IsAtBat(ev) == ev \in {"SINGLE", "STRIKEOUT"}

\* how one plate appearance changes an OBP record
CountPlay(o, ev) ==
    [hits |-> o.hits + (IF IsHit(ev) THEN 1 ELSE 0),
     walks |-> o.walks + (IF ev = "WALK" THEN 1 ELSE 0),
     hit_by_pitches |-> o.hit_by_pitches + (IF ev = "HIT_BY_PITCH" THEN 1 ELSE 0),
     at_bats |-> o.at_bats + (IF IsAtBat(ev) THEN 1 ELSE 0),
     sacrifice_flys |-> o.sacrifice_flys + (IF ev = "SACRIFICE_FLY" THEN 1 ELSE 0)]

\* the mapping a calculator starts from: the team player and every roster
\* player, each with a fresh record
EmptyMapping(ids) == [id \in ids \cup {TEAM_PLAYER_ID} |-> NewOBP]

RecordPlayNotForTeam(m, batter, ev) ==
    [m EXCEPT ![batter] = CountPlay(@, ev)]

\* a counted plate appearance goes to its batter's record and to the team's
RecordPlay(m, batter, ev) ==
    [m EXCEPT ![batter] = CountPlay(@, ev), ![TEAM_PLAYER_ID] = CountPlay(@, ev)]

\* ------------------------------------------------------------------ games

\* get_games_inning_id(game, inning): the composite "game,inning" id
get_games_inning_id(game, inning) == <<game.id, inning>>

\* the positions <<game, play>> of all plays of the games
Positions(gs) == UNION {{<<g, i>> : i \in 1..Len(gs[g].plays)} : g \in 1..Len(gs)}

\* game.inning_has_an_on_base(inning)
InningHasOnBase(game, inning) ==
    \E i \in 1..Len(game.plays) :
        game.plays[i].inning = inning /\ IsOnBase(game.plays[i].event)

\* an on-base event earlier in the inning than play i
HasOnBaseBefore(game, i) ==
    \E j \in 1..(i - 1) :
        /\ game.plays[j].inning = game.plays[i].inning
        /\ IsOnBase(game.plays[j].event)

HasOnBaseUpTo(game, i) ==
    \E j \in 1..i :
        /\ game.plays[j].inning = game.plays[i].inning
        /\ IsOnBase(game.plays[j].event)

CobpCountsEveryPlay(game, i) == TRUE

\* whether COBP counts play i of the game
CobpCounts(game, i) == InningHasOnBase(game, game.plays[i].inning)

SobpCountsFromFirstOnBase(game, i) == HasOnBaseUpTo(game, i)

\* whether SOBP counts play i of the game
SobpCounts(game, i) == HasOnBaseBefore(game, i)

\* whether the statistic counts play i of the game; loopq is the set of
\* positions LOOP counts
Counts(kind, game, g, i, loopq) ==
    CASE kind = "obp" -> TRUE
      [] kind = "cobp" -> CobpCounts(game, i)
      [] kind = "sobp" -> SobpCounts(game, i)
      [] kind = "loop" -> <<g, i>> \in loopq

\* the plays of one game recorded into the mapping, from play i on; only
\* the plays of inning `only` when it is not 0
RECURSIVE WalkPlays(_, _, _, _, _, _, _)
WalkPlays(m, kind, game, g, i, loopq, only) ==
    IF i > Len(game.plays) THEN m
    ELSE LET play == game.plays[i]
             m2 == IF /\ Counts(kind, game, g, i, loopq)
                      /\ only \in {0, play.inning}
                   THEN RecordPlay(m, play.batter_id, play.event)
                   ELSE m
         IN  WalkPlays(m2, kind, game, g, i + 1, loopq, only)

\* the games recorded into the mapping, from game g on
RECURSIVE WalkGames(_, _, _, _, _)
WalkGames(m, kind, gs, g, loopq) ==
    IF g > Len(gs) THEN m
    ELSE WalkGames(WalkPlays(m, kind, gs[g], g, 1, loopq, 0), kind, gs, g + 1, loopq)

\* the counts of every player and of the team for one statistic
Tally(kind, gs, ids, loopq) == WalkGames(EmptyMapping(ids), kind, gs, 1, loopq)

\* the innings of the games in which the statistic counts a play of the
\* player (any play, for the team player)
CountedInnings(kind, gs, id, loopq) ==
    {<<g, gs[g].plays[i].inning>> : <<g, i>> \in
        {pos \in Positions(gs) :
            /\ Counts(kind, gs[pos[1]], pos[1], pos[2], loopq)
            /\ id \in {TEAM_PLAYER_ID, gs[pos[1]].plays[pos[2]].batter_id}}}

\* a statistic's game_inning_to_obp of one player: the sub-record of every
\* inning in which a play of the player is counted
GameInningToObp(kind, gs, ids, id, loopq) ==
    LET keys == {get_games_inning_id(gs[gi[1]], gi[2]) :
                     gi \in CountedInnings(kind, gs, id, loopq)}
        GameOf(k) == CHOOSE g \in 1..Len(gs) : gs[g].id = k[1]
    IN  [k \in keys |->
            WalkPlays(EmptyMapping(ids), kind, gs[GameOf(k)], GameOf(k), 1, loopq, k[2])[id]]

\* an OBP-family record: the counts and the per-inning sub-records
ObpFamily(kind, gs, ids, loopq) ==
    LET t == Tally(kind, gs, ids, loopq)
    IN  [id \in DOMAIN t |->
            [hits |-> t[id].hits, walks |-> t[id].walks,
             hit_by_pitches |-> t[id].hit_by_pitches, at_bats |-> t[id].at_bats,
             sacrifice_flys |-> t[id].sacrifice_flys,
             game_inning_to_obp |-> GameInningToObp(kind, gs, ids, id, loopq)]]

\* the ids of a list of players
Ids(players) == {players[i].id : i \in 1..Len(players)}

get_player_to_obp(gs, players) == ObpFamily("obp", gs, Ids(players), {})

get_player_to_cobp(gs, players) == ObpFamily("cobp", gs, Ids(players), {})

get_player_to_sobp(gs, players) == ObpFamily("sobp", gs, Ids(players), {})

get_player_to_loop(gs, players, loopq) == ObpFamily("loop", gs, Ids(players), loopq)

\* ------------------------------------------------- BA, SP family, basic counts

\* how many plays the statistic counts for the player (for the team player:
\* of any batter) with an event in evs
CountWhere(kind, gs, id, loopq, evs) ==
    Cardinality({pos \in Positions(gs) :
        /\ Counts(kind, gs[pos[1]], pos[1], pos[2], loopq)
        /\ id \in {TEAM_PLAYER_ID, gs[pos[1]].plays[pos[2]].batter_id}
        /\ gs[pos[1]].plays[pos[2]].event \in evs})

\* SP(), BA(), BasicStats(), Runs(): every count 0
NewSP == [singles |-> 0, doubles |-> 0, triples |-> 0, home_runs |-> 0, at_bats |-> 0]

NewBA == [hits |-> 0, at_bats |-> 0]

NewBasicStats ==
    [games |-> 0, at_bats |-> 0, hits |-> 0, walks |-> 0, hit_by_pitches |-> 0,
     sacrifice_flys |-> 0, singles |-> 0, doubles |-> 0, triples |-> 0, home_runs |-> 0]

NewRuns == [runs |-> 0, rbis |-> 0]

\* SP.value: total bases per at-bat
SPValue(sp) ==
    IF sp.at_bats = 0
    THEN ZeroRatio
    ELSE Ratio(sp.singles + 2 * sp.doubles + 3 * sp.triples + 4 * sp.home_runs, sp.at_bats)

\* BA.value: hits per at-bat
BAValue(ba) == IF ba.at_bats = 0 THEN ZeroRatio ELSE Ratio(ba.hits, ba.at_bats)

\* the SP-family mapping of one statistic kind ("obp" for SP, "cobp" for
\* CSP, "loop" for LSP, "sobp" for SSP)
SPFamily(kind, gs, ids, loopq) ==
    [id \in ids \cup {TEAM_PLAYER_ID} |->
        [singles |-> CountWhere(kind, gs, id, loopq, {"SINGLE"}),
         doubles |-> CountWhere(kind, gs, id, loopq, {"DOUBLE"}),
         triples |-> CountWhere(kind, gs, id, loopq, {"TRIPLE"}),
         home_runs |-> CountWhere(kind, gs, id, loopq, {"HOME_RUN"}),
         at_bats |-> CountWhere(kind, gs, id, loopq, {"SINGLE", "STRIKEOUT"})]]

get_player_to_sp(gs, players) == SPFamily("obp", gs, Ids(players), {})

get_player_to_csp(gs, players) == SPFamily("cobp", gs, Ids(players), {})

get_player_to_ssp(gs, players) == SPFamily("sobp", gs, Ids(players), {})

get_player_to_lsp(gs, players, loopq) == SPFamily("loop", gs, Ids(players), loopq)

get_player_to_ba(gs, players) ==
    [id \in Ids(players) \cup {TEAM_PLAYER_ID} |->
        [hits |-> CountWhere("obp", gs, id, {}, {"SINGLE"}),
         at_bats |-> CountWhere("obp", gs, id, {}, {"SINGLE", "STRIKEOUT"})]]

\* the games in which the player has a play (any play, for the team)
GamesPlayed(gs, id) ==
    Cardinality({g \in 1..Len(gs) :
        \E i \in 1..Len(gs[g].plays) :
            id \in {TEAM_PLAYER_ID, gs[g].plays[i].batter_id}})

get_player_to_basic_stats(gs, players) ==
    [id \in Ids(players) \cup {TEAM_PLAYER_ID} |->
        [games |-> GamesPlayed(gs, id),
         at_bats |-> CountWhere("obp", gs, id, {}, {"SINGLE", "STRIKEOUT"}),
         hits |-> CountWhere("obp", gs, id, {}, {"SINGLE"}),
         walks |-> CountWhere("obp", gs, id, {}, {"WALK"}),
         hit_by_pitches |-> CountWhere("obp", gs, id, {}, {"HIT_BY_PITCH"}),
         sacrifice_flys |-> CountWhere("obp", gs, id, {}, {"SACRIFICE_FLY"}),
         singles |-> CountWhere("obp", gs, id, {}, {"SINGLE"}),
         doubles |-> CountWhere("obp", gs, id, {}, {"DOUBLE"}),
         triples |-> CountWhere("obp", gs, id, {}, {"TRIPLE"}),
         home_runs |-> CountWhere("obp", gs, id, {}, {"HOME_RUN"})]]

\* get_player_to_runs: the season's runs and RBIs of every roster player
\* found at the secondary source; the team player has no entry there
get_player_to_runs(players, season) == [id \in Ids(players) |-> season]

\* ------------------------------------------------- composite statistics

\* OPS(obp=..., sp=...), COPS(cobp=..., csp=...), LOOPS(loop=..., lsp=...),
\* SOPS(sobp=..., ssp=...): the two operands
OPS(obp, sp) == [obp |-> obp, sp |-> sp]

COPS(cobp, csp) == [cobp |-> cobp, csp |-> csp]

LOOPS(loop, lsp) == [loop |-> loop, lsp |-> lsp]

SOPS(sobp, ssp) == [sobp |-> sobp, ssp |-> ssp]

\* OPS.value, COPS.value, LOOPS.value, SOPS.value
OPSValue(c) == RatioAdd(OBPValue(c.obp), SPValue(c.sp))

COPSValue(c) == RatioAdd(OBPValue(c.cobp), SPValue(c.csp))

LOOPSValue(c) == RatioAdd(OBPValue(c.loop), SPValue(c.lsp))

SOPSValue(c) == RatioAdd(OBPValue(c.sobp), SPValue(c.ssp))

\* PlayerStats.ops, .cops, .loops, .sops
PlayerStats_ops(st) == OPS(st.obp, st.sp)

PlayerStats_cops_with_sp(st) == COPS(st.cobp, st.sp)

PlayerStats_cops(st) == COPS(st.cobp, st.csp)

PlayerStats_loops(st) == LOOPS(st.loop, st.lsp)

PlayerStats_sops(st) == SOPS(st.sobp, st.ssp)

\* ------------------------------------------------- aggregation layer

\* mapping.get(id) or default
GetOr(m, id, default) == IF id \in DOMAIN m THEN m[id] ELSE default

\* build_team_player() / Player.as_team()
TeamPlayer == [id |-> TEAM_PLAYER_ID, name |-> "Team"]

AllPlayersWithoutTeam(players) == players

\* [team player, *players]
AllPlayers(players) == <<TeamPlayer>> \o players

\* {p.id: p for p in players}, read at one id
PlayerOfId(players, id) == players[CHOOSE i \in 1..Len(players) : players[i].id = id]

\* generation B's get_player_to_stats; loopq is what LOOP counts and season
\* what the secondary source holds for the roster players
get_player_to_stats_B(gs, players, loopq, season) ==
    LET player_to_obp == get_player_to_obp(gs, players)
        player_to_cobp == get_player_to_cobp(gs, players)
        player_to_sobp == get_player_to_sobp(gs, players)
        player_to_loop == get_player_to_loop(gs, players, loopq)
        player_to_ba == get_player_to_ba(gs, players)
        player_to_sp == get_player_to_sp(gs, players)
        player_to_csp == get_player_to_csp(gs, players)
        player_to_lsp == get_player_to_lsp(gs, players, loopq)
        player_to_ssp == get_player_to_ssp(gs, players)
        player_to_basic_stats == get_player_to_basic_stats(gs, players)
        player_to_runs == get_player_to_runs(players, season)
    IN  [id \in Ids(AllPlayers(players)) |->
            [obp |-> GetOr(player_to_obp, id, NewOBP),
             cobp |-> GetOr(player_to_cobp, id, NewOBP),
             sobp |-> GetOr(player_to_sobp, id, NewOBP),
             loop |-> GetOr(player_to_loop, id, NewOBP),
             ba |-> GetOr(player_to_ba, id, NewBA),
             sp |-> GetOr(player_to_sp, id, NewSP),
             csp |-> GetOr(player_to_csp, id, NewSP),
             lsp |-> GetOr(player_to_lsp, id, NewSP),
             ssp |-> GetOr(player_to_ssp, id, NewSP),
             basic |-> GetOr(player_to_basic_stats, id, NewBasicStats),
             runs |-> GetOr(player_to_runs, id, NewRuns)]]

\* generation A's PlayerStats(...): __post_init__ copies the counts of obp
\* and sp
PlayerStats_A(obp, cobp, sobp, ba, sp, ops, cops) ==
    [obp |-> obp, cobp |-> cobp, sobp |-> sobp, ba |-> ba, sp |-> sp,
     ops |-> ops, cops |-> cops,
     at_bats |-> obp.at_bats, hits |-> obp.hits, walks |-> obp.walks,
     hit_by_pitches |-> obp.hit_by_pitches, sacrifice_flys |-> obp.sacrifice_flys,
     singles |-> sp.singles, doubles |-> sp.doubles, triples |-> sp.triples,
     home_runs |-> sp.home_runs]

\* generation A's get_player_to_stats; players is get_players_in_games(games)
get_player_to_stats_A(gs, players) ==
    LET player_to_obp == get_player_to_obp(gs, players)
        player_to_cobp == get_player_to_cobp(gs, players)
        player_to_sobp == get_player_to_sobp(gs, players)
        player_to_ba == get_player_to_ba(gs, players)
        player_to_sp == get_player_to_sp(gs, players)
        player_to_ops == [id \in DOMAIN player_to_obp |->
                             OPS(player_to_obp[id], player_to_sp[id])]
        player_to_cops == [id \in DOMAIN player_to_cobp |->
                              COPS(player_to_cobp[id], player_to_sp[id])]
    IN  [id \in Ids(AllPlayers(players)) |->
            PlayerStats_A(GetOr(player_to_obp, id, NewOBP),
                          GetOr(player_to_cobp, id, NewOBP),
                          GetOr(player_to_sobp, id, NewOBP),
                          GetOr(player_to_ba, id, NewBA),
                          GetOr(player_to_sp, id, NewSP),
                          GetOr(player_to_ops, id, OPS(NewOBP, NewSP)),
                          GetOr(player_to_cops, id, COPS(NewOBP, NewSP)))]

\* player_to_stats.items(): the keys in insertion order
ItemKeys(player_to_stats, players) ==
    SelectSeq([i \in 1..Len(AllPlayers(players)) |-> AllPlayers(players)[i].id],
              LAMBDA id : id \in DOMAIN player_to_stats)

ItemKeysWithoutFirst(player_to_stats, players) == Tail(ItemKeys(player_to_stats, players))

\* the keys get_player_to_stats_df makes a row of
RowKeys(player_to_stats, players) == ItemKeys(player_to_stats, players)

\* generation A's get_player_to_stats_df: one row per item of the mapping
get_player_to_stats_df_A(gs, player_to_stats, players) ==
    LET keys == RowKeys(player_to_stats, players)
    IN  [r \in 1..Len(keys) |->
            LET stats == player_to_stats[keys[r]]
            IN  [Player |-> PlayerOfId(AllPlayers(players), keys[r]).name,
                 AB |-> stats.at_bats, H |-> stats.hits, W |-> stats.walks,
                 HBP |-> stats.hit_by_pitches, SF |-> stats.sacrifice_flys,
                 S |-> stats.singles, D |-> stats.doubles, T |-> stats.triples,
                 HR |-> stats.home_runs,
                 OBP |-> OBPValue(stats.obp), COBP |-> OBPValue(stats.cobp),
                 SOBP |-> OBPValue(stats.sobp), BA |-> BAValue(stats.ba),
                 SP |-> SPValue(stats.sp), OPS |-> OPSValue(stats.ops),
                 COPS |-> COPSValue(stats.cops)]]

\* generation B's get_player_to_stats_df
get_player_to_stats_df_B(gs, player_to_stats, players, team, year) ==
    LET keys == RowKeys(player_to_stats, players)
    IN  [r \in 1..Len(keys) |->
            LET stats == player_to_stats[keys[r]]
                player == PlayerOfId(AllPlayers(players), keys[r])
            IN  [Team |-> team, Year |-> year, Player |-> player.name, ID |-> player.name,
                 G |-> stats.basic.games, AB |-> stats.basic.at_bats, H |-> stats.basic.hits,
                 W |-> stats.basic.walks, HBP |-> stats.basic.hit_by_pitches,
                 SF |-> stats.basic.sacrifice_flys, S |-> stats.basic.singles,
                 D |-> stats.basic.doubles, T |-> stats.basic.triples,
                 HR |-> stats.basic.home_runs,
                 R |-> stats.runs.runs, RBI |-> stats.runs.rbis,
                 OBP |-> OBPValue(stats.obp), COBP |-> OBPValue(stats.cobp),
                 LOOP |-> OBPValue(stats.loop), SOBP |-> OBPValue(stats.sobp),
                 BA |-> BAValue(stats.ba), SP |-> SPValue(stats.sp),
                 CSP |-> SPValue(stats.csp), LSP |-> SPValue(stats.lsp),
                 SSP |-> SPValue(stats.ssp),
                 OPS |-> OPSValue(PlayerStats_ops(stats)),
                 COPS |-> COPSValue(PlayerStats_cops(stats)),
                 LOOPS |-> LOOPSValue(PlayerStats_loops(stats)),
                 SOPS |-> SOPSValue(PlayerStats_sops(stats))]]

\* ------------------------------------------------- generation A's inning breakdown

\* range(1, 10)
FirstInning == 1
InningRangeEnd == 10

\* the cell of a missing sub-statistic (None)
MissingMarker == <<>>

\* _get_all_players_id_to_player(games, include_team=False), as a list
RealPlayers(players) == players

\* the players _get_inning_to_player_cobp keeps: those with an at-bat
PlayersWithAtBats(player_to_stats, players) ==
    SelectSeq(RealPlayers(players), LAMBDA p : player_to_stats[p.id].at_bats # 0)

InningIdsWalkedThroughInning10(gs) ==
    LET n == InningRangeEnd - FirstInning + 1
    IN  [k \in 1..(n * Len(gs)) |->
            get_games_inning_id(gs[((k - 1) \div n) + 1], FirstInning + ((k - 1) % n))]

\* the (game, inning) ids it walks for every kept player, in order
InningIdsWalked(gs) ==
    LET n == InningRangeEnd - FirstInning
    IN  [k \in 1..(n * Len(gs)) |->
            get_games_inning_id(gs[((k - 1) \div n) + 1], FirstInning + ((k - 1) % n))]

\* _get_inning_to_player_cobp: inning id -> player id -> COBP of the inning
\* or the missing marker
get_inning_to_player_cobp(gs, player_to_stats, players) ==
    LET kept == PlayersWithAtBats(player_to_stats, players)
        ids == InningIdsWalked(gs)
    IN  IF kept = <<>> THEN <<>>
        ELSE [inning_id \in {ids[k] : k \in 1..Len(ids)} |->
                 [player_id \in Ids(kept) |->
                     LET by_inning == player_to_stats[player_id].cobp.game_inning_to_obp
                     IN  IF inning_id \in DOMAIN by_inning
                         THEN OBPValue(by_inning[inning_id])
                         ELSE MissingMarker]]

\* the cells appended to the column of one display name while the row of
\* one inning id is walked
RECURSIVE CellsOfName(_, _, _)
CellsOfName(row, kept, name) ==
    IF kept = <<>> THEN <<>>
    ELSE (IF Head(kept).name = name THEN <<row[Head(kept).id]>> ELSE <<>>)
             \o CellsOfName(row, Tail(kept), name)

\* the column of one display name over the rows from row k on
RECURSIVE ColumnOfName(_, _, _, _, _)
ColumnOfName(inning_to_player_cobp, ids, kept, name, k) ==
    IF k > Len(ids) THEN <<>>
    ELSE CellsOfName(inning_to_player_cobp[ids[k]], kept, name)
             \o ColumnOfName(inning_to_player_cobp, ids, kept, name, k + 1)

\* get_player_to_inning_cobp_df: the Inning column, one column per display
\* name, and whether pd.DataFrame(data) accepts them (it raises ValueError
\* when the columns differ in length)
get_player_to_inning_cobp_df(gs, player_to_stats, players) ==
    LET inning_to_player_cobp == get_inning_to_player_cobp(gs, player_to_stats, players)
        kept == PlayersWithAtBats(player_to_stats, players)
        ids == IF kept = <<>> THEN <<>> ELSE InningIdsWalked(gs)
        names == {kept[i].name : i \in 1..Len(kept)}
        columns == [name \in names |->
                       ColumnOfName(inning_to_player_cobp, ids, kept, name, 1)]
    IN  [cells |-> inning_to_player_cobp,
         Inning |-> ids,
         columns |-> columns,
         raised |-> IF \A name \in names : Len(columns[name]) = Len(ids)
                    THEN "no" ELSE "ValueError"]

\* PlayerStats of generation B with default-constructed operands
NewPlayerStats ==
    [obp |-> NewOBP, cobp |-> NewOBP, sobp |-> NewOBP, loop |-> NewOBP,
     sp |-> NewSP, csp |-> NewSP, lsp |-> NewSP, ssp |-> NewSP]

\* ------------------------------------------------- generation B's game breakdown

\* whether a Python object of the kind has the attribute
HasAttribute(kind, attribute) ==
    <<kind, attribute>> \in {<<"Player", "id">>, <<"Player", "name">>, <<"dict", "items">>}

\* a statistic's game_to_stat of one player: the sub-value of every game in
\* which a play of the player is counted
GameToStat(stat_name, gs, ids, id) ==
    LET counted == {g \in 1..Len(gs) : \E gi \in CountedInnings(stat_name, gs, id, {}) : gi[1] = g}
    IN  [game_id \in {gs[g].id : g \in counted} |->
            LET g == CHOOSE g \in counted : gs[g].id = game_id
            IN  OBPValue(Tally(stat_name, <<gs[g]>>, ids, {})[id])]

\* _get_game_to_player_stat: player_id_to_player is the set {p.id for p in
\* players}, and .items() is asked of it
get_game_to_player_stat(gs, players, player_to_stats, stat_name) ==
    LET player_id_to_player == [kind |-> "set", ids |-> Ids(players)]
    IN  IF ~HasAttribute(player_id_to_player.kind, "items")
        THEN [raised |-> "AttributeError", val |-> <<>>]
        ELSE LET kept == {id \in player_id_to_player.ids :
                              player_to_stats[id].basic.at_bats # 0}
             IN  [raised |-> "no",
                  val |-> IF kept = {} THEN <<>>
                          ELSE [game_id \in {gs[g].id : g \in 1..Len(gs)} |->
                                   [player_id \in kept |->
                                       LET game_to_stat ==
                                               GameToStat(stat_name, gs, Ids(players), player_id)
                                       IN  IF game_id \in DOMAIN game_to_stat
                                           THEN game_to_stat[game_id]
                                           ELSE MissingMarker]]]

\* get_player_to_game_stat_df: players is the two-element list [team
\* player, list of the roster players], and p.id is asked of both elements
get_player_to_game_stat_df(gs, players, player_to_stats, stat_name) ==
    LET players_ == <<[kind |-> "Player", player |-> TeamPlayer],
                      [kind |-> "list", items |-> players]>>
        failed == [raised |-> "AttributeError", Game |-> <<>>, cells |-> <<>>,
                   columns |-> <<>>]
    IN  IF \E i \in 1..Len(players_) : ~HasAttribute(players_[i].kind, "id")
        THEN failed
        ELSE LET game_to_player_stat ==
                     get_game_to_player_stat(gs, players, player_to_stats, stat_name)
                 kept == SelectSeq(players, LAMBDA p :
                             \E game_id \in DOMAIN game_to_player_stat.val :
                                 p.id \in DOMAIN game_to_player_stat.val[game_id])
                 ids == IF game_to_player_stat.val = <<>> THEN <<>>
                        ELSE [g \in 1..Len(gs) |-> gs[g].id]
                 names == {kept[i].name : i \in 1..Len(kept)}
                 columns == [name \in names |->
                                ColumnOfName(game_to_player_stat.val, ids, kept, name, 1)]
             IN  IF game_to_player_stat.raised # "no" THEN failed
                 ELSE [raised |-> IF \A name \in names : Len(columns[name]) = Len(ids)
                                  THEN "no" ELSE "ValueError",
                       Game |-> ids, cells |-> game_to_player_stat.val,
                       columns |-> columns]

\* ------------------------------------------------- generation A's rendering

\* whether the player has plays in the games (player.plays)
HasPlays(gs, id) ==
    \E pos \in Positions(gs) : gs[pos[1]].plays[pos[2]].batter_id = id

\* a mapping without one key (dict.pop)
Pop(m, key) == [k \in DOMAIN m \ {key} |-> m[k]]

\* the mapping _display_stats leaves behind: player_to_stats.pop(TEAM_PLAYER_ID)
AfterDisplayStats(m) == Pop(m, TEAM_PLAYER_ID)

\* display_game(games, player_to_stats): what is raised, whether the
\* innings of the single game are shown, the ids of the rows rendered in
\* order, and the mapping as the call leaves it
display_game(gs, players, m) ==
    IF gs = <<>>
    THEN [raised |-> "IndexError", innings |-> FALSE, rows |-> <<>>, after |-> m]
    ELSE IF TEAM_PLAYER_ID \notin DOMAIN m
    THEN [raised |-> "KeyError", innings |-> Len(gs) = 1, rows |-> <<>>, after |-> m]
    ELSE LET after == AfterDisplayStats(m)
         IN  [raised |-> "no", innings |-> Len(gs) = 1,
              rows |-> <<TEAM_PLAYER_ID>> \o
                       SelectSeq(ItemKeys(after, players),
                                 LAMBDA id : id # TEAM_PLAYER_ID /\ HasPlays(gs, id)),
              after |-> after]

\* ------------------------------------------------- generation A's main

\* an absent choice of a selector (None or the empty choice) and a made one
NoChoice == [chosen |-> FALSE]
Chosen(v) == [chosen |-> TRUE, value |-> v]

\* selectors.ENTIRE_SEASON
ENTIRE_SEASON == "Entire Season"

\* a run of main before its first statement
NewRun ==
    [pc |-> "set_streamlit_config", team |-> NoChoice, year |-> NoChoice,
     file |-> "unread", all_games |-> <<>>, game_ |-> NoChoice, games |-> <<>>,
     steps |-> <<>>, shown |-> <<>>, raised |-> "no"]

\* if not team or not year
NotTeamOrNotYearOnlyTeam(team, year) == ~team.chosen
NotTeamOrNotYear(team, year) == ~team.chosen \/ ~year.chosen

\* _load_games(year, team_id) on an event file that is absent, malformed
\* or parsed into games: the exception that leaves it, the messages shown
\* through display_error, and the games returned (none: None)
load_games_without_handler(file) ==
    CASE file.state = "absent" ->
             [raised |-> "NotFound", shown |-> <<>>, none |-> TRUE, games |-> <<>>]
      [] file.state = "malformed" ->
             [raised |-> "ValueError", shown |-> <<>>, none |-> TRUE, games |-> <<>>]
      [] file.state = "parsed" ->
             [raised |-> "no", shown |-> <<>>, none |-> FALSE, games |-> file.games]
load_games(file) ==
    CASE file.state = "absent" ->
             [raised |-> "NotFound", shown |-> <<>>, none |-> TRUE, games |-> <<>>]
      [] file.state = "malformed" ->
             [raised |-> "no", shown |-> <<file.message>>, none |-> TRUE, games |-> <<>>]
      [] file.state = "parsed" ->
             [raised |-> "no", shown |-> <<>>, none |-> FALSE, games |-> file.games]

\* display_game(games, player_to_obps, player_to_ba) against
\* def display_game(games, player_to_stats): three arguments for two
\* parameters, the call raises TypeError before the body runs
DisplayGameParameters == <<"games", "player_to_stats">>
DisplayGameArguments == <<"games", "player_to_obps", "player_to_ba">>
CallDisplayGameFromMain ==
    IF Len(DisplayGameArguments) = Len(DisplayGameParameters) THEN "no" ELSE "TypeError"

\* ------------------------------------------------- composite objects

\* round(x, 2) of a ratio, in hundredths (ties to even, as for the values
\* that are exact in binary)
Round2(x) ==
    LET n == x[1] * 100
        q == n \div x[2]
        rem == n % x[2]
    IN  IF 2 * rem > x[2] THEN q + 1
        ELSE IF 2 * rem < x[2] THEN q
        ELSE IF q % 2 = 0 THEN q ELSE q + 1

\* the names of the two operands in the explanation of a composite
OperandLabels(kind) ==
    CASE kind = "OPS" -> <<"OBP", "SP">>
      [] kind = "COPS" -> <<"COBP", "CSP">>
      [] kind = "LOOPS" -> <<"LOOP", "LSP">>
      [] kind = "SOPS" -> <<"SOBP", "SSP">>

\* OPS.value, COPS.value, LOOPS.value, SOPS.value of a composite object
CompositeValue(c) == RatioAdd(OBPValue(c.obp), SPValue(c.sp))

\* f"OBP={round(self.obp.value, 2)} + SP={round(self.sp.value, 2)} ==
\* {round(self.value, 2)}", as the labels and the three rounded numbers
Explanation(kind, obp, sp) ==
    <<OperandLabels(kind)[1], Round2(OBPValue(obp)),
      OperandLabels(kind)[2], Round2(SPValue(sp)),
      Round2(RatioAdd(OBPValue(obp), SPValue(sp)))>>

\* OPS(obp=..., sp=...) and the like as an object: __post_init__ stores the
\* explanation, the operands stay the objects it was given
NewComposite(kind, obp, sp) ==
    [kind |-> kind, obp |-> obp, sp |-> sp, explanation |-> Explanation(kind, obp, sp)]

\* ------------------------------------------------------------------ init

Init ==
    /\ obp_ = NewOBP
    /\ value_out = NoCall
    /\ obp_so_far = EmptyMapping(PlayerIds)
    /\ plays_seen = [b \in PlayerIds, ev \in BatterEvents |-> 0]
    /\ games = <<>>
    /\ lineup = <<>>
    /\ out = NoCall
    /\ one_stats = NewPlayerStats
    /\ derived_out = NoCall
    /\ cache_file = <<>>
    /\ lru_cache = <<>>
    /\ last_call = NoCall
    /\ seasonal_df = <<>>
    /\ lookup_out = NoCall
    /\ run = NewRun
    /\ composite = NewComposite("OPS", NewOBP, NewSP)
    /\ composite_out = NoCall
    /\ held = [set |-> FALSE]
    /\ displayed = NoCall

\* ------------------------------------------------- direct use of an OBP record

othersValue == <<varsObp, varsGames, varsDerived, varsCache, varsLookup, varsMain, varsComposite,
    varsDisplay>>

\* obp_.hits = v, obp_.walks = v, ... as the tests assign them
SetHits ==
    /\ \E v \in 0..MaxCount : obp_' = [obp_ EXCEPT !.hits = v]
    /\ UNCHANGED <<value_out, othersValue>>

SetWalks ==
    /\ \E v \in 0..MaxCount : obp_' = [obp_ EXCEPT !.walks = v]
    /\ UNCHANGED <<value_out, othersValue>>

SetHitByPitches ==
    /\ \E v \in 0..MaxCount : obp_' = [obp_ EXCEPT !.hit_by_pitches = v]
    /\ UNCHANGED <<value_out, othersValue>>

SetAtBats ==
    /\ \E v \in 0..MaxCount : obp_' = [obp_ EXCEPT !.at_bats = v]
    /\ UNCHANGED <<value_out, othersValue>>

SetSacrificeFlys ==
    /\ \E v \in 0..MaxCount : obp_' = [obp_ EXCEPT !.sacrifice_flys = v]
    /\ UNCHANGED <<value_out, othersValue>>

\* obp_.value
ReadValue ==
    /\ value_out' = [fn |-> "value", of |-> obp_, value |-> OBPValue(obp_)]
    /\ UNCHANGED <<obp_, othersValue>>

NextValue ==
    \/ SetHits
    \/ SetWalks
    \/ SetHitByPitches
    \/ SetAtBats
    \/ SetSacrificeFlys
    \/ ReadValue

SpecValue == Init /\ [][NextValue]_vars

\* ------------------------------------------------------------------ C1

\* C1: whenever an OBP record's value is read, it is the float
\* (hits + walks + hit-by-pitches) / (at-bats + walks + hit-by-pitches +
\* sacrifice-flys), and 0.0 when that denominator is 0; all five counts 1
\* give 3/4.
C1_ObpValueIsFormula ==
    value_out.fn = "value" =>
        LET o == value_out.of
            v == value_out.value
        IN  /\ v[2] > 0
            /\ OBPDenominator(o) = 0 => v = <<0, 1>>
            /\ OBPDenominator(o) # 0 =>
                   /\ v[1] * OBPDenominator(o) = OBPNumerator(o) * v[2]
                   /\ Gcd(v[1], v[2]) = 1
            /\ (o.hits = 1 /\ o.walks = 1 /\ o.hit_by_pitches = 1
                    /\ o.at_bats = 1 /\ o.sacrifice_flys = 1) => v = <<3, 4>>

\* the value of the record with all five counts 1 has been read, and so has
\* the value of a record with denominator 0 and nonzero hits
C1_Witness ==
    /\ value_out.fn = "value"
    /\ value_out.of = [hits |-> 1, walks |-> 1, hit_by_pitches |-> 1,
                       at_bats |-> 1, sacrifice_flys |-> 1]
    /\ value_out.value = <<3, 4>>

C1_WitnessZeroDenominator ==
    /\ value_out.fn = "value"
    /\ OBPDenominator(value_out.of) = 0
    /\ value_out.of.hits > 0
    /\ value_out.value = <<0, 1>>

\* ------------------------------------------------- get_player_to_obp, play by play

othersObp == <<varsValue, varsGames, varsDerived, varsCache, varsLookup, varsMain, varsComposite,
    varsDisplay>>

RECURSIVE SumOver(_, _)
SumOver(f, S) ==
    IF S = {} THEN 0
    ELSE LET x == CHOOSE y \in S : TRUE IN f[x] + SumOver(f, S \ {x})

PlaysSeen == SumOver(plays_seen, DOMAIN plays_seen)

\* get_player_to_obp reaches the next play of the game: batter b, event ev
ObpPlay ==
    /\ PlaysSeen < MaxObpPlays
    /\ \E b \in PlayerIds, ev \in BatterEvents :
           /\ obp_so_far' = RecordPlay(obp_so_far, b, ev)
           /\ plays_seen' = [plays_seen EXCEPT ![b, ev] = @ + 1]
    /\ UNCHANGED othersObp

\* a new call of get_player_to_obp, on another game
ObpRestart ==
    /\ PlaysSeen > 0
    /\ obp_so_far' = EmptyMapping(PlayerIds)
    /\ plays_seen' = [b \in PlayerIds, ev \in BatterEvents |-> 0]
    /\ UNCHANGED othersObp

NextObp ==
    \/ ObpPlay
    \/ ObpRestart

SpecObp == Init /\ [][NextObp]_vars

\* ------------------------------------------------------------------ C5

\* the plays of test_get_player_to_obp
TestedGame ==
    [b \in PlayerIds, ev \in BatterEvents |->
        IF b = "player" /\ ev \in {"SINGLE", "WALK", "HIT_BY_PITCH", "SACRIFICE_FLY"}
        THEN 1
        ELSE IF b = "player_2" /\ ev \in {"STRIKEOUT", "NO_PLAY"} THEN 1 ELSE 0]

Fields == {"hits", "walks", "hit_by_pitches", "at_bats", "sacrifice_flys"}

\* C5: each count of the team player's record is the sum of that count over
\* the individual players' records; a player's at-bats are his singles and
\* strikeouts only (walks, hit-by-pitches, sacrifice flys and NO_PLAY add no
\* at-bat), his walks, hit-by-pitches and sacrifice flys are the plays of
\* that kind, and NO_PLAY changes no count; the tested game gives 0.75, 0.0
\* and 0.6 for the team.
C5_TeamIsSumOfPlayers ==
    /\ DOMAIN obp_so_far = PlayerIds \cup {TEAM_PLAYER_ID}
    /\ \A f \in Fields :
           obp_so_far[TEAM_PLAYER_ID][f] =
               obp_so_far["player"][f] + obp_so_far["player_2"][f]
    /\ \A b \in PlayerIds :
           /\ obp_so_far[b].at_bats = plays_seen[b, "SINGLE"] + plays_seen[b, "STRIKEOUT"]
           /\ obp_so_far[b].hits = plays_seen[b, "SINGLE"]
           /\ obp_so_far[b].walks = plays_seen[b, "WALK"]
           /\ obp_so_far[b].hit_by_pitches = plays_seen[b, "HIT_BY_PITCH"]
           /\ obp_so_far[b].sacrifice_flys = plays_seen[b, "SACRIFICE_FLY"]
    /\ plays_seen = TestedGame =>
           /\ OBPValue(obp_so_far["player"]) = <<3, 4>>
           /\ OBPValue(obp_so_far["player_2"]) = <<0, 1>>
           /\ OBPValue(obp_so_far[TEAM_PLAYER_ID]) = <<3, 5>>

\* get_player_to_obp has walked the six plays of the tested game
C5_Witness ==
    /\ plays_seen = TestedGame
    /\ obp_so_far[TEAM_PLAYER_ID].at_bats = 2
    /\ OBPValue(obp_so_far[TEAM_PLAYER_ID]) = <<3, 5>>

\* ------------------------------------------------- calls on the loaded games

othersGames == <<varsValue, varsObp, varsDerived, varsCache, varsLookup, varsMain, varsComposite,
    varsDisplay>>

\* the ids of the games that can be loaded, in load order
GameIds == <<"g1", "g2">>

\* the innings and the events of the loaded plays: a regulation inning and
\* an extra inning
InningChoices == {1, 10}

GameEvents == {"SINGLE", "STRIKEOUT", "WALK"}

\* the players of the loaded games: mock_player and mock_player_2, the
\* second under his own display name or under the first one's
Lineups ==
    {<<[id |-> "player", name |-> "player"], [id |-> "player_2", name |-> n]>> :
        n \in {"player_1", "player"}}

TotalPlays == Cardinality(Positions(games))

\* one more game is loaded; the first one brings the players
LoadGame ==
    /\ out = NoCall
    /\ Len(games) < Len(GameIds)
    /\ games' = Append(games, [id |-> GameIds[Len(games) + 1], plays |-> <<>>])
    /\ IF games = <<>> THEN lineup' \in Lineups ELSE lineup' = lineup
    /\ UNCHANGED <<out, othersGames>>

\* the game being loaded has one more play, in its last inning or a later one
LoadPlay ==
    /\ out = NoCall
    /\ games # <<>>
    /\ TotalPlays < MaxPlays
    /\ \E b \in Ids(lineup), inning \in InningChoices, ev \in GameEvents :
           LET g == Len(games)
               plays == games[g].plays
           IN  /\ plays # <<>> => inning >= plays[Len(plays)].inning
               /\ games' = [games EXCEPT ![g].plays =
                               Append(@, [batter_id |-> b, inning |-> inning, event |-> ev])]
    /\ UNCHANGED <<lineup, out, othersGames>>

CallGetPlayerToObp ==
    /\ out = NoCall
    /\ out' = [fn |-> "get_player_to_obp", val |-> get_player_to_obp(games, lineup)]
    /\ UNCHANGED <<games, lineup, othersGames>>

CallGetPlayerToCobp ==
    /\ out = NoCall
    /\ out' = [fn |-> "get_player_to_cobp", val |-> get_player_to_cobp(games, lineup)]
    /\ UNCHANGED <<games, lineup, othersGames>>

CallGetPlayerToSobp ==
    /\ out = NoCall
    /\ out' = [fn |-> "get_player_to_sobp", val |-> get_player_to_sobp(games, lineup)]
    /\ UNCHANGED <<games, lineup, othersGames>>

\* what LOOP may count: no play, every play, or the first play of every game
LoopChoices(gs) == {{}, Positions(gs), {pos \in Positions(gs) : pos[2] = 1}}

\* what the secondary source may hold for a roster player's season
SeasonChoices == {[runs |-> 0, rbis |-> 0], [runs |-> 2, rbis |-> 1]}

CallGetPlayerToStatsA ==
    /\ out = NoCall
    /\ out' = [fn |-> "get_player_to_stats_A", val |-> get_player_to_stats_A(games, lineup)]
    /\ UNCHANGED <<games, lineup, othersGames>>

CallGetPlayerToStatsB ==
    /\ out = NoCall
    /\ \E loopq \in LoopChoices(games), season \in SeasonChoices :
           out' = [fn |-> "get_player_to_stats_B",
                   val |-> get_player_to_stats_B(games, lineup, loopq, season)]
    /\ UNCHANGED <<games, lineup, othersGames>>

CallGetPlayerToStatsDfA ==
    /\ out = NoCall
    /\ out' = [fn |-> "get_player_to_stats_df_A",
               val |-> get_player_to_stats_df_A(
                           games, get_player_to_stats_A(games, lineup), lineup)]
    /\ UNCHANGED <<games, lineup, othersGames>>

CallGetPlayerToStatsDfB ==
    /\ out = NoCall
    /\ \E loopq \in LoopChoices(games), season \in SeasonChoices :
           out' = [fn |-> "get_player_to_stats_df_B",
                   val |-> get_player_to_stats_df_B(
                               games, get_player_to_stats_B(games, lineup, loopq, season),
                               lineup, "name", 2022)]
    /\ UNCHANGED <<games, lineup, othersGames>>

CallGetPlayerToInningCobpDf ==
    /\ out = NoCall
    /\ out' = [fn |-> "get_player_to_inning_cobp_df",
               val |-> get_player_to_inning_cobp_df(
                           games, get_player_to_stats_A(games, lineup), lineup)]
    /\ UNCHANGED <<games, lineup, othersGames>>

\* the inning-aware metrics a breakdown may be asked for
StatNames == {"obp", "cobp", "sobp"}

CallGetPlayerToGameStatDf ==
    /\ out = NoCall
    /\ \E stat_name \in StatNames, loopq \in LoopChoices(games), season \in SeasonChoices :
           out' = [fn |-> "get_player_to_game_stat_df", stat_name |-> stat_name,
                   val |-> get_player_to_game_stat_df(
                               games, lineup,
                               get_player_to_stats_B(games, lineup, loopq, season),
                               stat_name)]
    /\ UNCHANGED <<games, lineup, othersGames>>

\* the result is dropped: a call is a pure function of the loaded games, so
\* one call per result is modelled
DropResult ==
    /\ out # NoCall
    /\ out' = NoCall
    /\ UNCHANGED <<games, lineup, othersGames>>

NextGames ==
    \/ LoadGame
    \/ LoadPlay
    \/ CallGetPlayerToObp
    \/ CallGetPlayerToCobp
    \/ CallGetPlayerToSobp
    \/ CallGetPlayerToStatsA
    \/ CallGetPlayerToStatsB
    \/ CallGetPlayerToStatsDfA
    \/ CallGetPlayerToStatsDfB
    \/ CallGetPlayerToInningCobpDf
    \/ CallGetPlayerToGameStatDf
    \/ DropResult

SpecGames == Init /\ [][NextGames]_vars

\* ------------------------------------------------------------------ C2, C3

\* the number of plays at the positions of P that are of batter id (of any
\* batter, for the team player) and whose event is in evs
NumPlays(P, id, evs) ==
    Cardinality({pos \in P :
        /\ id \in {TEAM_PLAYER_ID, games[pos[1]].plays[pos[2]].batter_id}
        /\ games[pos[1]].plays[pos[2]].event \in evs})

\* a record holds exactly the plays at the positions of P
HoldsPlays(rec, P, id) ==
    /\ rec.hits = NumPlays(P, id, {"SINGLE"})
    /\ rec.walks = NumPlays(P, id, {"WALK"})
    /\ rec.hit_by_pitches = NumPlays(P, id, {"HIT_BY_PITCH"})
    /\ rec.sacrifice_flys = NumPlays(P, id, {"SACRIFICE_FLY"})
    /\ rec.at_bats = NumPlays(P, id, {"SINGLE", "STRIKEOUT"})

PlayOf(pos) == games[pos[1]].plays[pos[2]]

\* the plays of an inning that contains an on-base event
InOnBaseInning ==
    {pos \in Positions(games) :
        \E q \in Positions(games) :
            /\ q[1] = pos[1]
            /\ PlayOf(q).inning = PlayOf(pos).inning
            /\ PlayOf(q).event \in {"SINGLE", "WALK", "HIT_BY_PITCH"}}

\* the plays that follow an on-base event of their inning
AfterOnBase ==
    {pos \in Positions(games) :
        \E q \in Positions(games) :
            /\ q[1] = pos[1]
            /\ q[2] < pos[2]
            /\ PlayOf(q).inning = PlayOf(pos).inning
            /\ PlayOf(q).event \in {"SINGLE", "WALK", "HIT_BY_PITCH"}}

\* one game whose plays are, in order and in inning 1, ev1 by player and
\* ev2 by player_2
TwoPlayGame(ev1, ev2) ==
    /\ Len(games) = 1
    /\ games[1].plays = <<[batter_id |-> "player", inning |-> 1, event |-> ev1],
                          [batter_id |-> "player_2", inning |-> 1, event |-> ev2]>>

AllIds == Ids(lineup) \cup {TEAM_PLAYER_ID}

\* C2: get_player_to_cobp counts a plate appearance for its batter and for
\* the team exactly when its inning of its game contains an on-base event;
\* two singles in one inning give both players and the team 1.0, two
\* strikeouts give all three 0 at-bats and 0.0.
C2_CobpCountsOnBaseInnings ==
    out.fn = "get_player_to_cobp" =>
        /\ \A id \in AllIds : HoldsPlays(out.val[id], InOnBaseInning, id)
        /\ TwoPlayGame("SINGLE", "SINGLE") =>
               \A id \in AllIds : OBPValue(out.val[id]) = <<1, 1>>
        /\ TwoPlayGame("STRIKEOUT", "STRIKEOUT") =>
               \A id \in AllIds :
                   out.val[id].at_bats = 0 /\ OBPValue(out.val[id]) = <<0, 1>>

\* get_player_to_cobp has run on a game with an inning without on-base
\* event, whose at-bat it left out, and an inning with one, whose at-bat it
\* counted
C2_Witness ==
    /\ out.fn = "get_player_to_cobp"
    /\ \E pos \in Positions(games) \ InOnBaseInning : PlayOf(pos).event = "STRIKEOUT"
    /\ \E pos \in InOnBaseInning : PlayOf(pos).event = "SINGLE"
    /\ out.val[TEAM_PLAYER_ID].at_bats = 1
    /\ NumPlays(Positions(games), TEAM_PLAYER_ID, {"SINGLE", "STRIKEOUT"}) = 2

\* C3: get_player_to_sobp counts a plate appearance for its batter and for
\* the team exactly when a strictly earlier plate appearance of the same
\* inning of the same game was an on-base event; single by A then single by
\* B gives A 0 at-bats, B and the team 1.0; strikeout by A then single by B
\* gives 0.0 for all three and 0 at-bats for A and B.
C3_SobpCountsAfterOnBase ==
    out.fn = "get_player_to_sobp" =>
        /\ \A id \in AllIds : HoldsPlays(out.val[id], AfterOnBase, id)
        /\ TwoPlayGame("SINGLE", "SINGLE") =>
               /\ out.val["player"].at_bats = 0
               /\ OBPValue(out.val["player"]) = <<0, 1>>
               /\ OBPValue(out.val["player_2"]) = <<1, 1>>
               /\ OBPValue(out.val[TEAM_PLAYER_ID]) = <<1, 1>>
        /\ TwoPlayGame("STRIKEOUT", "SINGLE") =>
               /\ \A id \in AllIds : OBPValue(out.val[id]) = <<0, 1>>
               /\ out.val["player"].at_bats = 0
               /\ out.val["player_2"].at_bats = 0

\* get_player_to_sobp has run on single by player, single by player_2
C3_Witness ==
    /\ out.fn = "get_player_to_sobp"
    /\ TwoPlayGame("SINGLE", "SINGLE")
    /\ out.val["player_2"].at_bats = 1
    /\ out.val["player"].at_bats = 0

\* ------------------------------------------------------------------ C4

MappingCalls ==
    {"get_player_to_stats_A", "get_player_to_stats_B",
     "get_player_to_obp", "get_player_to_cobp", "get_player_to_sobp"}

TableCalls == {"get_player_to_stats_df_A", "get_player_to_stats_df_B"}

\* the player whose row is row r: the team player first, then the roster
RowPlayer(r) == AllPlayers(lineup)[r]

\* the table has one row per roster player and one for the team player
OneRowPerPlayer ==
    /\ Len(out.val) = Len(lineup) + 1
    /\ \A r \in 1..Len(out.val) : out.val[r].Player = RowPlayer(r).name

BattingCounts(row) == <<row.AB, row.H, row.W, row.HBP, row.SF, row.S, row.D, row.T, row.HR>>

\* every count and ratio field of a row is zero
AllFieldsZero(row) ==
    /\ \A k \in 1..9 : BattingCounts(row)[k] = 0
    /\ \A v \in {row.OBP, row.COBP, row.SOBP, row.BA, row.SP, row.OPS, row.COPS} :
           v = <<0, 1>>
    /\ out.fn = "get_player_to_stats_df_B" =>
           /\ row.G = 0 /\ row.R = 0 /\ row.RBI = 0
           /\ \A v \in {row.LOOP, row.CSP, row.LSP, row.SSP, row.LOOPS, row.SOPS} :
                  v = <<0, 1>>

\* every batting count and every ratio field of a row is zero
BattingFieldsZero(row) ==
    /\ \A k \in 1..9 : BattingCounts(row)[k] = 0
    /\ \A v \in {row.OBP, row.COBP, row.SOBP, row.BA, row.SP, row.OPS, row.COPS} :
           v = <<0, 1>>
    /\ out.fn = "get_player_to_stats_df_B" =>
           \A v \in {row.LOOP, row.CSP, row.LSP, row.SSP, row.LOOPS, row.SOPS} :
               v = <<0, 1>>

AtBatsOf(id) == NumPlays(Positions(games), id, {"SINGLE", "STRIKEOUT"})

PlateAppearancesOf(id) ==
    NumPlays(Positions(games), id,
             {"SINGLE", "STRIKEOUT", "WALK", "HIT_BY_PITCH", "SACRIFICE_FLY"})

CountedIn(inning_id) ==
    {pos \in InOnBaseInning :
        get_games_inning_id(games[pos[1]], PlayOf(pos).inning) = inning_id}

\* the COBP sub-value of a player in an inning, or the missing marker
InningCell(id, inning_id) ==
    LET P == {pos \in CountedIn(inning_id) : PlayOf(pos).batter_id = id}
    IN  IF P = {} THEN <<>>
        ELSE OBPValue([hits |-> NumPlays(P, id, {"SINGLE"}),
                       walks |-> NumPlays(P, id, {"WALK"}),
                       hit_by_pitches |-> NumPlays(P, id, {"HIT_BY_PITCH"}),
                       at_bats |-> NumPlays(P, id, {"SINGLE", "STRIKEOUT"}),
                       sacrifice_flys |-> NumPlays(P, id, {"SACRIFICE_FLY"})])

\* C10: in generation A's inning breakdown a player has a cell in a row
\* exactly when he is a roster player (not the team player) with at least
\* one at-bat across the games; every such player has exactly one cell in
\* every row, the inning's COBP sub-value or the missing marker, so every
\* column is as long as the Inning column.
C10_OneCellPerPlayerAndRow ==
    out.fn = "get_player_to_inning_cobp_df" =>
        LET df == out.val
            withAtBats == {id \in Ids(lineup) : AtBatsOf(id) >= 1}
        IN  /\ \A inning_id \in DOMAIN df.cells :
                   /\ DOMAIN df.cells[inning_id] = withAtBats
                   /\ \A id \in withAtBats :
                          df.cells[inning_id][id] = InningCell(id, inning_id)
            /\ df.raised = "no"
            /\ \A i \in 1..Len(lineup) :
                   lineup[i].id \in withAtBats =>
                       /\ lineup[i].name \in DOMAIN df.columns
                       /\ Len(df.columns[lineup[i].name]) = Len(df.Inning)
            /\ \A name \in DOMAIN df.columns : Len(df.columns[name]) = Len(df.Inning)

\* ------------------------------------------------------------------ C11

\* the game-inning ids of the loaded games with an inning number in 1..9
RegulationInningIds == {<<games[g].id, n>> : g \in 1..Len(games), n \in 1..9}

\* C11: in generation A's inning breakdown every row key is the
\* game-inning id of one of the supplied games with an inning number in
\* 1..9; a game with plays in inning 10 gives no row for inning 10,
\* whatever sub-statistics the COBP records hold.
C11_RowsAreInnings1To9 ==
    out.fn = "get_player_to_inning_cobp_df" =>
        /\ DOMAIN out.val.cells \subseteq RegulationInningIds
        /\ \A k \in 1..Len(out.val.Inning) : out.val.Inning[k] \in RegulationInningIds

\* the breakdown has rows, and a player with an at-bat singled in inning 10
\* of a loaded game, so his COBP record holds a sub-statistic of inning 10
C11_Witness ==
    /\ out.fn = "get_player_to_inning_cobp_df"
    /\ Len(out.val.Inning) >= 9
    /\ \E pos \in Positions(games) :
           /\ PlayOf(pos).inning = 10
           /\ PlayOf(pos).event = "SINGLE"
           /\ get_games_inning_id(games[pos[1]], 10) \in
                  DOMAIN get_player_to_stats_A(games, lineup)[PlayOf(pos).batter_id]
                             .cobp.game_inning_to_obp

\* ------------------------------------------------------------------ C17

\* C17: for a non-empty list of games, any roster and any inning-aware
\* metric, generation B's get_player_to_game_stat_df completes without
\* error and returns one row per game, keyed by the game id, with one
\* column per real roster player with at least one at-bat, each cell the
\* game's sub-value of the metric or the missing marker.
C17_GameBreakdownCompletes ==
    (out.fn = "get_player_to_game_stat_df" /\ games # <<>>) =>
        LET withAtBats == {id \in Ids(lineup) : AtBatsOf(id) >= 1}
        IN  /\ out.val.raised = "no"
            /\ withAtBats # {} =>
                   /\ out.val.Game = [g \in 1..Len(games) |-> games[g].id]
                   /\ \A game_id \in DOMAIN out.val.cells :
                          DOMAIN out.val.cells[game_id] = withAtBats
                   /\ \A name \in DOMAIN out.val.columns :
                          Len(out.val.columns[name]) = Len(games)

\* ------------------------------------------------- composite statistics, queried

othersDerived == <<varsValue, varsObp, varsGames, varsCache, varsLookup, varsMain, varsComposite,
    varsDisplay>>

\* the operand records a PlayerStats is given: of value 0.0, 1/2, 1.0 (OBP
\* family) and 0.0, 1.0, 2.0 (SP family)
ObpOperands ==
    {NewOBP,
     [hits |-> 1, walks |-> 0, hit_by_pitches |-> 0, at_bats |-> 2, sacrifice_flys |-> 0],
     [hits |-> 1, walks |-> 1, hit_by_pitches |-> 0, at_bats |-> 1, sacrifice_flys |-> 0]}

SpOperands ==
    {NewSP,
     [singles |-> 1, doubles |-> 0, triples |-> 0, home_runs |-> 0, at_bats |-> 1],
     [singles |-> 0, doubles |-> 0, triples |-> 0, home_runs |-> 1, at_bats |-> 2]}

\* PlayerStats(obp=..., cobp=..., ...): one operand is given another record
GiveObpOperand ==
    /\ \E f \in {"obp", "cobp", "sobp", "loop"}, o \in ObpOperands :
           one_stats' = [one_stats EXCEPT ![f] = o]
    /\ derived_out' = NoCall
    /\ UNCHANGED othersDerived

GiveSpOperand ==
    /\ \E f \in {"sp", "csp", "lsp", "ssp"}, o \in SpOperands :
           one_stats' = [one_stats EXCEPT ![f] = o]
    /\ derived_out' = NoCall
    /\ UNCHANGED othersDerived

\* stats.ops.value, stats.cops.value, stats.loops.value, stats.sops.value
QueryOps ==
    /\ derived_out' = [fn |-> "ops", value |-> OPSValue(PlayerStats_ops(one_stats))]
    /\ UNCHANGED <<one_stats, othersDerived>>

QueryCops ==
    /\ derived_out' = [fn |-> "cops", value |-> COPSValue(PlayerStats_cops(one_stats))]
    /\ UNCHANGED <<one_stats, othersDerived>>

QueryLoops ==
    /\ derived_out' = [fn |-> "loops", value |-> LOOPSValue(PlayerStats_loops(one_stats))]
    /\ UNCHANGED <<one_stats, othersDerived>>

QuerySops ==
    /\ derived_out' = [fn |-> "sops", value |-> SOPSValue(PlayerStats_sops(one_stats))]
    /\ UNCHANGED <<one_stats, othersDerived>>

NextDerived ==
    \/ GiveObpOperand
    \/ GiveSpOperand
    \/ QueryOps
    \/ QueryCops
    \/ QueryLoops
    \/ QuerySops

SpecDerived == Init /\ [][NextDerived]_vars

\* ------------------------------------------------------------------ C6

\* the ratio v is the sum of the ratios a and b
IsSumOf(v, a, b) ==
    /\ v[2] > 0
    /\ v[1] * (a[2] * b[2]) = (a[1] * b[2] + b[1] * a[2]) * v[2]

ObpRatio(o) ==
    IF OBPDenominator(o) = 0 THEN <<0, 1>> ELSE <<OBPNumerator(o), OBPDenominator(o)>>

SpRatio(sp) ==
    IF sp.at_bats = 0 THEN <<0, 1>>
    ELSE <<sp.singles + 2 * sp.doubles + 3 * sp.triples + 4 * sp.home_runs, sp.at_bats>>

\* C6: the value of PlayerStats.ops is obp.value + sp.value, of .cops
\* cobp.value + csp.value, of .loops loop.value + lsp.value and of .sops
\* sobp.value + ssp.value, for any operands, default-constructed ones
\* included (0.0 + 0.0 = 0.0).
C6_CompositeIsSumOfItsOperands ==
    /\ derived_out.fn = "ops" =>
           IsSumOf(derived_out.value, ObpRatio(one_stats.obp), SpRatio(one_stats.sp))
    /\ derived_out.fn = "cops" =>
           IsSumOf(derived_out.value, ObpRatio(one_stats.cobp), SpRatio(one_stats.csp))
    /\ derived_out.fn = "loops" =>
           IsSumOf(derived_out.value, ObpRatio(one_stats.loop), SpRatio(one_stats.lsp))
    /\ derived_out.fn = "sops" =>
           IsSumOf(derived_out.value, ObpRatio(one_stats.sobp), SpRatio(one_stats.ssp))
    /\ (derived_out.fn # "none" /\ one_stats = NewPlayerStats) =>
           derived_out.value = <<0, 1>>

\* COPS has been queried on a PlayerStats whose csp differs from its sp and
\* whose cobp differs from its obp: 1/2 + 2.0 = 5/2
C6_Witness ==
    /\ derived_out.fn = "cops"
    /\ OBPValue(one_stats.cobp) = <<1, 2>>
    /\ SPValue(one_stats.csp) = <<2, 1>>
    /\ OBPValue(one_stats.obp) = <<1, 1>>
    /\ SPValue(one_stats.sp) = <<1, 1>>
    /\ derived_out.value = <<5, 2>>

\* ------------------------------------------------- the scrape cache

othersCache == <<varsValue, varsObp, varsGames, varsDerived, varsLookup, varsMain, varsComposite,
    varsDisplay>>

\* range(FIRST_AVAILABLE_YEAR, LAST_AVAILABLE_YEAR + 1), shortened to two seasons
FIRST_AVAILABLE_YEAR == 2022
LAST_AVAILABLE_YEAR == 2023
AvailableYears == FIRST_AVAILABLE_YEAR .. LAST_AVAILABLE_YEAR

PlayerSeasonalStats(rbis, runs) ==
    [player_name |-> "Jose Abreu", player_id |-> "abreujo02",
     baseball_reference_team_id |-> "CHW", rbis |-> rbis, runs |-> runs]

\* what BaseballReferenceClient.get_players_seasonal_stats returns: the rows
\* of the site's table at the time of the fetch, or the element wait runs out
Timeout == "TimeoutException"
SiteTables == {<<>>, <<PlayerSeasonalStats(1, 2)>>, <<PlayerSeasonalStats(3, 2)>>}
SiteOutcomes == {[raised |-> "no", rows |-> t] : t \in SiteTables} \cup {[raised |-> Timeout]}

\* str(int) and the integer parsing of read_csv, on one decimal digit
Digits == <<"0", "1", "2", "3", "4", "5", "6", "7", "8", "9">>
Str(n) == Digits[n + 1]
IsDigits(text) == \E k \in DOMAIN Digits : Digits[k] = text
ParseCell(text) ==
    IF IsDigits(text) THEN (CHOOSE k \in DOMAIN Digits : Digits[k] = text) - 1 ELSE text

\* the lines dump_players_seasonal_stats writes, each line as its fields
HeaderLine == <<"player_name", "player_id", "baseball_reference_team_id", "rbis", "runs">>
ToLines(players_seasonal_stats) ==
    <<HeaderLine>> \o
    [i \in 1 .. Len(players_seasonal_stats) |->
        LET player_stats == players_seasonal_stats[i]
        IN  <<player_stats.player_name, player_stats.player_id,
              player_stats.baseball_reference_team_id,
              Str(player_stats.rbis), Str(player_stats.runs)>>]

\* pd.read_csv: the first line names the columns, every other line is a row
read_csv(lines) ==
    [i \in 1 .. Len(lines) - 1 |->
        [column \in {lines[1][k] : k \in DOMAIN lines[1]} |->
            ParseCell(lines[i + 1][CHOOSE k \in DOMAIN lines[1] : lines[1][k] = column])]]

\* data_path.write_text of one year's file
WriteFile(files, year, lines) ==
    [y \in DOMAIN files \cup {year} |-> IF y = year THEN lines ELSE files[y]]

\* the state of the files after dump_players_seasonal_stats(year) met outcome
dump_players_seasonal_stats(files, year, outcome) ==
    IF outcome.raised = Timeout THEN files ELSE WriteFile(files, year, ToLines(outcome.rows))

\* get_seasonal_players_stats without the memo of lru_cache
ReadWithoutMemo(year, outcome) ==
    IF year \in DOMAIN cache_file
    THEN [fn |-> "get_seasonal_players_stats", year |-> year, existed |-> TRUE,
          memo_hit |-> FALSE, fetched |-> FALSE, wrote |-> FALSE, raised |-> "no",
          returned |-> read_csv(cache_file[year])]
    ELSE IF outcome.raised = Timeout
    THEN [fn |-> "get_seasonal_players_stats", year |-> year, existed |-> FALSE,
          memo_hit |-> FALSE, fetched |-> TRUE, wrote |-> FALSE, raised |-> Timeout,
          returned |-> <<>>]
    ELSE [fn |-> "get_seasonal_players_stats", year |-> year, existed |-> FALSE,
          memo_hit |-> FALSE, fetched |-> TRUE, wrote |-> TRUE, raised |-> "no",
          returned |-> read_csv(dump_players_seasonal_stats(cache_file, year, outcome)[year])]

\* @lru_cache(maxsize=None) def get_seasonal_players_stats(year)
GetSeasonalPlayersStats ==
    \E year \in AvailableYears, outcome \in SiteOutcomes :
        /\ IF year \in DOMAIN lru_cache
           THEN /\ last_call' =
                       [fn |-> "get_seasonal_players_stats", year |-> year,
                        existed |-> year \in DOMAIN cache_file, memo_hit |-> TRUE,
                        fetched |-> FALSE, wrote |-> FALSE, raised |-> "no",
                        returned |-> lru_cache[year]]
                /\ UNCHANGED <<cache_file, lru_cache>>
           ELSE LET call == ReadWithoutMemo(year, outcome)
                IN  /\ last_call' = call
                    /\ cache_file' =
                           IF call.fetched
                           THEN dump_players_seasonal_stats(cache_file, year, outcome)
                           ELSE cache_file
                    /\ lru_cache' =
                           IF call.raised = "no"
                           THEN WriteFile(lru_cache, year, call.returned)
                           ELSE lru_cache
        /\ UNCHANGED othersCache

\* dump_players_seasonal_stats(year), called on its own: a forced refresh
DumpPlayersSeasonalStats ==
    \E year \in AvailableYears, outcome \in SiteOutcomes :
        /\ cache_file' = dump_players_seasonal_stats(cache_file, year, outcome)
        /\ last_call' = [fn |-> "dump_players_seasonal_stats", year |-> year,
                         raised |-> outcome.raised]
        /\ UNCHANGED <<lru_cache, othersCache>>

\* the files after the years from year on were dumped, up to the first timeout
RECURSIVE DumpFrom(_, _, _)
DumpFrom(files, year, outcomes) ==
    IF year > LAST_AVAILABLE_YEAR THEN files
    ELSE IF outcomes[year].raised = Timeout THEN files
    ELSE DumpFrom(dump_players_seasonal_stats(files, year, outcomes[year]), year + 1, outcomes)

\* dump_all_seasons()
DumpAllSeasons ==
    \E outcomes \in [AvailableYears -> SiteOutcomes] :
        /\ cache_file' = DumpFrom(cache_file, FIRST_AVAILABLE_YEAR, outcomes)
        /\ last_call' = [fn |-> "dump_all_seasons",
                         raised |-> IF \E y \in AvailableYears : outcomes[y].raised = Timeout
                                    THEN Timeout ELSE "no"]
        /\ UNCHANGED <<lru_cache, othersCache>>

\* the dashboard process ends and another one starts: the files stay, the
\* memo of lru_cache is empty again
NewProcess ==
    /\ lru_cache # <<>>
    /\ lru_cache' = <<>>
    /\ last_call' = [fn |-> "new_process"]
    /\ UNCHANGED <<cache_file, othersCache>>

NextCache ==
    \/ GetSeasonalPlayersStats
    \/ DumpPlayersSeasonalStats
    \/ DumpAllSeasons
    \/ NewProcess

SpecCache == Init /\ [][NextCache]_vars

\* ------------------------------------------------------------------ C7

\* the rows the file of a year holds
RowsOfFile(year) ==
    [i \in 1 .. Len(cache_file[year]) - 1 |->
        [player_name |-> cache_file[year][i + 1][1],
         player_id |-> cache_file[year][i + 1][2],
         baseball_reference_team_id |-> cache_file[year][i + 1][3],
         rbis |-> ParseCell(cache_file[year][i + 1][4]),
         runs |-> ParseCell(cache_file[year][i + 1][5])]]

\* C7: a call of get_seasonal_players_stats(year) made while the file of
\* the year exists performs no fetch and no write and returns the rows of
\* the file; a fetch and write happens only on a read of a year whose file
\* does not exist, and it is done when that read returns.
C7_ReadThrough ==
    last_call.fn = "get_seasonal_players_stats" =>
        /\ last_call.existed =>
               /\ ~last_call.fetched
               /\ ~last_call.wrote
               /\ last_call.raised = "no"
               /\ last_call.returned = RowsOfFile(last_call.year)
        /\ last_call.fetched => ~last_call.existed
        /\ last_call.wrote =>
               /\ last_call.fetched
               /\ last_call.year \in DOMAIN cache_file
               /\ last_call.returned = RowsOfFile(last_call.year)

\* ------------------------------------------------------------------ C16

\* C16: after any sequence of reads and forced refreshes within one
\* process, a read of a year whose file exists returns the rows the file
\* holds at the time of the read; a read that follows a forced refresh of
\* the year returns the refreshed rows, not those of an earlier read.
C16_ReadReturnsTheRowsOfTheFile ==
    (last_call.fn = "get_seasonal_players_stats" /\ last_call.existed) =>
        /\ last_call.raised = "no"
        /\ Len(last_call.returned) = Len(cache_file[last_call.year]) - 1
        /\ \A i \in 1..Len(last_call.returned) :
               /\ last_call.returned[i].player_id = cache_file[last_call.year][i + 1][2]
               /\ Str(last_call.returned[i].rbis) = cache_file[last_call.year][i + 1][4]
               /\ Str(last_call.returned[i].runs) = cache_file[last_call.year][i + 1][5]

\* ------------------------------------------------- lookup_player

othersLookup == <<varsValue, varsObp, varsGames, varsDerived, varsCache, varsMain, varsComposite,
    varsDisplay>>

\* the largest number of rows of the seasonal table
MaxRows == 3

LookupNames == {"Clint Frazier", "Jackson Frazier", "Jose Abreu"}
LookupTeams == {"NYY", "CHW"}

\* the similarity scores (0..100) the scorer gives a query against each
\* name; a name scores 100 against itself
ScoreChoices == {0, 49, 50, 100}
Scorings(query) == {sc \in [LookupNames -> ScoreChoices] : sc[query] = 100}

\* one more row of the cached table
AddRow ==
    /\ Len(seasonal_df) < MaxRows
    /\ \E name \in LookupNames, team \in LookupTeams :
           seasonal_df' = Append(seasonal_df,
               [player_name |-> name, baseball_reference_team_id |-> team])
    /\ lookup_out' = NoCall
    /\ UNCHANGED othersLookup

\* process.extractOne(query, choices): the first choice of the best score,
\* None when there is no choice
RECURSIVE BestFrom(_, _, _, _)
BestFrom(choices, scores, i, best) ==
    IF i > Len(choices) THEN best
    ELSE BestFrom(choices, scores, i + 1,
                  IF scores[choices[i]] > scores[choices[best]] THEN i ELSE best)

extractOne(choices, scores) ==
    IF choices = <<>> THEN "None"
    ELSE LET best == BestFrom(choices, scores, 1, 1)
         IN  <<choices[best], scores[choices[best]]>>

threshold == 50

\* if score >= threshold
AcceptsAboveThreshold(score) == score > threshold
Accepts(score) == score >= threshold

\* the column player_name of a table, as a list
NamesOf(rows) == [i \in DOMAIN rows |-> rows[i].player_name]

\* lookup_player(df, player_name, team_id), where scores is the scorer
lookup_player(rows, player_name, team_id, scores) ==
    LET team_players == SelectSeq(rows, LAMBDA r : r.baseball_reference_team_id = team_id)
        extracted == extractOne(NamesOf(team_players), scores)
    IN  IF extracted = "None"
        THEN [raised |-> "TypeError"]
        ELSE IF Accepts(extracted[2])
        THEN [raised |-> "no",
              returned |-> SelectSeq(team_players, LAMBDA r : r.player_name = extracted[1])]
        ELSE [raised |-> "ValueError", player_name |-> player_name, team_id |-> team_id,
              result |-> extracted[1], score |-> extracted[2]]

LookupPlayer ==
    /\ lookup_out = NoCall
    /\ \E player_name \in LookupNames, team_id \in LookupTeams :
           \E scores \in Scorings(player_name) :
               lookup_out' = [fn |-> "lookup_player", player_name |-> player_name,
                              team_id |-> team_id, scores |-> scores,
                              outcome |-> lookup_player(seasonal_df, player_name, team_id, scores)]
    /\ UNCHANGED <<seasonal_df, othersLookup>>

DropLookup ==
    /\ lookup_out # NoCall
    /\ lookup_out' = NoCall
    /\ UNCHANGED <<seasonal_df, othersLookup>>

NextLookup ==
    \/ AddRow
    \/ LookupPlayer
    \/ DropLookup

SpecLookup == Init /\ [][NextLookup]_vars

\* ------------------------------------------------------------------ C8

\* the rows of the table of the given team
TeamRows(team_id) ==
    {i \in DOMAIN seasonal_df : seasonal_df[i].baseball_reference_team_id = team_id}

\* C8: lookup_player takes its candidates among the rows of the given
\* team, takes a candidate name of the best score, returns the rows of that
\* name in the team when the score is >= 50 and raises a ValueError naming
\* the query, the team, the best candidate and the score when it is <= 49;
\* every returned row is of the given team.
C8_LookupThreshold ==
    (lookup_out.fn = "lookup_player" /\ TeamRows(lookup_out.team_id) # {}) =>
        LET candidates == TeamRows(lookup_out.team_id)
            scoreOf(i) == lookup_out.scores[seasonal_df[i].player_name]
            best == CHOOSE i \in candidates : \A j \in candidates : scoreOf(i) >= scoreOf(j)
            outcome == lookup_out.outcome
        IN  /\ scoreOf(best) >= 50 =>
                /\ outcome.raised = "no"
                /\ Len(outcome.returned) >= 1
                /\ \A k \in DOMAIN outcome.returned :
                       /\ outcome.returned[k].baseball_reference_team_id = lookup_out.team_id
                       /\ lookup_out.scores[outcome.returned[k].player_name] = scoreOf(best)
                       /\ outcome.returned[k].player_name = outcome.returned[1].player_name
                /\ Len(outcome.returned) =
                       Cardinality({i \in candidates :
                           seasonal_df[i].player_name = outcome.returned[1].player_name})
            /\ scoreOf(best) <= 49 =>
                /\ outcome.raised = "ValueError"
                /\ outcome.player_name = lookup_out.player_name
                /\ outcome.team_id = lookup_out.team_id
                /\ outcome.score = scoreOf(best)
                /\ \E i \in candidates :
                       /\ seasonal_df[i].player_name = outcome.result
                       /\ scoreOf(i) = scoreOf(best)

\* a lookup accepted at a best score of exactly 50, with a row of the other
\* team that scores 100 left out
C8_Witness ==
    /\ lookup_out.fn = "lookup_player"
    /\ lookup_out.outcome.raised = "no"
    /\ Len(lookup_out.outcome.returned) = 1
    /\ lookup_out.scores[lookup_out.outcome.returned[1].player_name] = 50
    /\ \E i \in DOMAIN seasonal_df :
           /\ seasonal_df[i].baseball_reference_team_id # lookup_out.team_id
           /\ lookup_out.scores[seasonal_df[i].player_name] = 100

\* a lookup refused at a best score of exactly 49
C8_WitnessRefused ==
    /\ lookup_out.fn = "lookup_player"
    /\ lookup_out.outcome.raised = "ValueError"
    /\ lookup_out.outcome.score = 49

\* ------------------------------------------------- generation A's main, run

othersMain == <<varsValue, varsObp, varsGames, varsDerived, varsCache, varsLookup, varsComposite,
    varsDisplay>>

MainTeams == {"NYY", "CHW", "BOS"}
MainYears == AvailableYears

\* what the locator and the parser make of the event file of a team and year
ParseErrors == {"bad play", "bad id"}
EventFiles ==
    {[state |-> "absent"]}
        \cup {[state |-> "malformed", message |-> m] : m \in ParseErrors}
        \cup {[state |-> "parsed", games |-> gs] : gs \in {<<>>, <<"g1">>, <<"g1", "g2">>}}

\* the choices get_game_selection offers
GameChoices(all_games) ==
    {NoChoice, Chosen(ENTIRE_SEASON)} \cup {Chosen(all_games[i]) : i \in 1..Len(all_games)}

Step(name) == Append(run.steps, name)

\* set_streamlit_config()
SetStreamlitConfig ==
    /\ run.pc = "set_streamlit_config"
    /\ run' = [run EXCEPT !.pc = "get_team_and_year_selection",
                          !.steps = Step("set_streamlit_config")]
    /\ UNCHANGED othersMain

\* team, year = selectors.get_team_and_year_selection(); if not team or
\* not year: return
GetTeamAndYearSelection ==
    /\ run.pc = "get_team_and_year_selection"
    /\ \E team \in {NoChoice} \cup {Chosen(t) : t \in MainTeams},
          year \in {NoChoice} \cup {Chosen(y) : y \in MainYears} :
           run' = [run EXCEPT !.team = team, !.year = year,
                              !.steps = Step("get_team_and_year_selection"),
                              !.pc = IF NotTeamOrNotYear(team, year)
                                     THEN "returned" ELSE "_load_games"]
    /\ UNCHANGED othersMain

\* all_games = _load_games(year, team.value); if not all_games: return
LoadGames ==
    /\ run.pc = "_load_games"
    /\ \E file \in EventFiles :
           LET loaded == load_games(file)
           IN  run' = [run EXCEPT !.file = file.state,
                                  !.steps = Step("_load_games"),
                                  !.shown = run.shown \o loaded.shown,
                                  !.raised = loaded.raised,
                                  !.all_games = loaded.games,
                                  !.pc = IF loaded.raised # "no" THEN "raised"
                                         ELSE IF loaded.none \/ loaded.games = <<>>
                                         THEN "returned"
                                         ELSE "get_game_selection"]
    /\ UNCHANGED othersMain

\* game_ = selectors.get_game_selection(all_games); if not game_: return;
\* games = all_games if game_ == ENTIRE_SEASON else [game_]
GetGameSelection ==
    /\ run.pc = "get_game_selection"
    /\ \E game_ \in GameChoices(run.all_games) :
           run' = [run EXCEPT !.game_ = game_,
                              !.steps = Step("get_game_selection"),
                              !.games = IF ~game_.chosen THEN <<>>
                                        ELSE IF game_.value = ENTIRE_SEASON
                                        THEN run.all_games ELSE <<game_.value>>,
                              !.pc = IF ~game_.chosen THEN "returned" ELSE "compute"]
    /\ UNCHANGED othersMain

\* player_to_obps = obp.get_player_to_obps(games);
\* player_to_ba = ba.get_player_to_ba(games)
ComputeStatistics ==
    /\ run.pc = "compute"
    /\ run' = [run EXCEPT !.steps = Step("compute"), !.pc = "display_game"]
    /\ UNCHANGED othersMain

\* display_game(games, player_to_obps, player_to_ba)
DisplayGame ==
    /\ run.pc = "display_game"
    /\ run' = [run EXCEPT !.steps = Step("display_game"),
                          !.raised = CallDisplayGameFromMain,
                          !.pc = IF CallDisplayGameFromMain = "no"
                                 THEN "returned" ELSE "raised"]
    /\ UNCHANGED othersMain

\* the dashboard framework runs main again on the next interaction
Rerun ==
    /\ run.pc \in {"returned", "raised"}
    /\ run' = NewRun
    /\ UNCHANGED othersMain

NextMain ==
    \/ SetStreamlitConfig
    \/ GetTeamAndYearSelection
    \/ LoadGames
    \/ GetGameSelection
    \/ ComputeStatistics
    \/ DisplayGame
    \/ Rerun

SpecMain == Init /\ [][NextMain]_vars

\* ------------------------------------------------------------------ C12

\* the steps of main in the order of the pipeline
PipelineOrder ==
    <<"set_streamlit_config", "get_team_and_year_selection", "_load_games",
      "get_game_selection", "compute", "display_game">>

Did(step) == \E i \in 1..Len(run.steps) : run.steps[i] = step

Ended == run.pc \in {"returned", "raised"}

\* C12: in every run of generation A's main the steps occur in the order
\* configure UI, prompt team/year, load games, prompt game, compute
\* statistics, render (the display_game call); the load happens only if a
\* team and a year were chosen, statistics are computed and display_game is
\* called only if the load returned games and a game or the entire season
\* was chosen; an absent choice ends the run with no later step and no
\* error shown.
C12_PipelineOrderAndShortCircuit ==
    /\ Len(run.steps) <= Len(PipelineOrder)
    /\ \A i \in 1..Len(run.steps) : run.steps[i] = PipelineOrder[i]
    /\ Did("_load_games") => run.team.chosen /\ run.year.chosen
    /\ (Did("compute") \/ Did("display_game")) =>
           /\ run.file = "parsed"
           /\ run.all_games # <<>>
           /\ run.game_.chosen
           /\ \/ run.game_.value = ENTIRE_SEASON /\ run.games = run.all_games
              \/ /\ \E i \in 1..Len(run.all_games) : run.all_games[i] = run.game_.value
                 /\ run.games = <<run.game_.value>>
    /\ (Did("get_team_and_year_selection") /\ (~run.team.chosen \/ ~run.year.chosen)) =>
           /\ Ended
           /\ run.steps = SubSeq(PipelineOrder, 1, 2)
           /\ run.shown = <<>>
           /\ run.raised = "no"
    /\ (Did("get_game_selection") /\ ~run.game_.chosen) =>
           /\ Ended
           /\ run.steps = SubSeq(PipelineOrder, 1, 4)
           /\ run.shown = <<>>
           /\ run.raised = "no"

\* a run in which a team, a year and one game of two were chosen has gone
\* through the six steps in order
C12_Witness ==
    /\ run.steps = PipelineOrder
    /\ run.all_games = <<"g1", "g2">>
    /\ run.games = <<"g2">>

\* a run ended by an absent year
C12_WitnessAbsentChoice ==
    /\ Ended
    /\ run.team.chosen
    /\ ~run.year.chosen
    /\ run.steps = SubSeq(PipelineOrder, 1, 2)

\* ------------------------------------------------------------------ C13

\* C13: when parsing the located event file fails with ValueError,
\* _load_games shows the error's message exactly once through
\* display_error and returns no games; main then returns without prompting
\* for a game, computing statistics or rendering, and the failure does not
\* leave main.
C13_InvalidInputShownOnce ==
    run.file = "malformed" =>
        /\ Len(run.shown) = 1
        /\ run.shown[1] \in ParseErrors
        /\ run.all_games = <<>>
        /\ run.pc = "returned"
        /\ run.raised = "no"
        /\ ~Did("get_game_selection")
        /\ ~Did("compute")
        /\ ~Did("display_game")
        /\ run.steps = SubSeq(PipelineOrder, 1, 3)

\* a run whose event file did not parse
C13_Witness ==
    /\ run.file = "malformed"
    /\ run.shown = <<"bad id">>
    /\ Did("_load_games")

\* ------------------------------------------------------------------ C14

\* C14: when the event file of the chosen team and year is absent, main
\* shows a user-visible error and ends the run without the failure leaving
\* main.
C14_MissingFileIsShown ==
    run.file = "absent" =>
        /\ Len(run.shown) >= 1
        /\ run.raised = "no"
        /\ run.pc = "returned"

\* ------------------------------------------------- composite objects, queried

othersComposite ==
    <<varsValue, varsObp, varsGames, varsDerived, varsCache, varsLookup, varsMain,
      varsDisplay>>

CompositeKinds == {"OPS", "COPS", "LOOPS", "SOPS"}

\* OPS(obp=obp, sp=sp), COPS(cobp=..., csp=...), ...: a composite is built
Construct ==
    /\ \E kind \in CompositeKinds, o \in ObpOperands, s \in SpOperands :
           composite' = NewComposite(kind, o, s)
    /\ composite_out' = NoCall
    /\ UNCHANGED othersComposite

\* the counts of the OBP-family operand change (obp_.hits = ..., a play is
\* counted): the composite holds the same object
ChangeObpOperand ==
    /\ \E o \in ObpOperands \ {composite.obp} :
           composite' = [composite EXCEPT !.obp = o]
    /\ composite_out' = NoCall
    /\ UNCHANGED othersComposite

\* the counts of the SP-family operand change
ChangeSpOperand ==
    /\ \E s \in SpOperands \ {composite.sp} :
           composite' = [composite EXCEPT !.sp = s]
    /\ composite_out' = NoCall
    /\ UNCHANGED othersComposite

\* composite.value and composite.explanation are read
QueryComposite ==
    /\ composite_out = NoCall
    /\ composite_out' = [fn |-> "query", value |-> CompositeValue(composite),
                         explanation |-> composite.explanation]
    /\ UNCHANGED <<composite, othersComposite>>

NextComposite ==
    \/ Construct
    \/ ChangeObpOperand
    \/ ChangeSpOperand
    \/ QueryComposite

SpecComposite == Init /\ [][NextComposite]_vars

\* ------------------------------------------------------------------ C15

\* C15: whenever a composite statistic is queried, its value and its
\* explanation are both computed from the current values of its two
\* operands: the explanation shows the operands' current rounded values and
\* their current rounded sum, in agreement with value, also after the
\* counts of an operand changed following the composite's construction.
C15_ExplanationIsCurrent ==
    composite_out.fn = "query" =>
        /\ IsSumOf(composite_out.value, ObpRatio(composite.obp), SpRatio(composite.sp))
        /\ composite_out.explanation[2] = Round2(ObpRatio(composite.obp))
        /\ composite_out.explanation[4] = Round2(SpRatio(composite.sp))
        /\ composite_out.explanation[5] = Round2(composite_out.value)

\* ------------------------------------------------- generation A's rendering, run

othersDisplay ==
    <<varsValue, varsObp, varsDerived, varsCache, varsLookup, varsMain, varsComposite>>

\* the most display_game calls made on one mapping
MaxDisplayCalls == 2

\* games are loaded before the statistics are computed
DisplayLoadGame ==
    /\ ~held.set
    /\ LoadGame

DisplayLoadPlay ==
    /\ ~held.set
    /\ LoadPlay

\* player_to_stats = get_player_to_stats(games)
ComputeForDisplay ==
    /\ ~held.set
    /\ held' = [set |-> TRUE, player_to_stats |-> get_player_to_stats_A(games, lineup)]
    /\ displayed' = NoCall
    /\ UNCHANGED <<varsGames, othersDisplay>>

CallsMade == IF displayed = NoCall THEN 0 ELSE displayed.nth

\* display_game(games, player_to_stats) on the mapping the caller holds
CallDisplayGame ==
    /\ held.set
    /\ CallsMade < MaxDisplayCalls
    /\ LET call == display_game(games, lineup, held.player_to_stats)
       IN  /\ held' = [held EXCEPT !.player_to_stats = call.after]
           /\ displayed' = [fn |-> "display_game", nth |-> CallsMade + 1,
                            before |-> held.player_to_stats, raised |-> call.raised,
                            innings |-> call.innings, rows |-> call.rows]
    /\ UNCHANGED <<varsGames, othersDisplay>>

\* the caller lets go of the mapping
DropStats ==
    /\ held.set
    /\ held' = [set |-> FALSE]
    /\ displayed' = NoCall
    /\ UNCHANGED <<varsGames, othersDisplay>>

NextDisplay ==
    \/ DisplayLoadGame
    \/ DisplayLoadPlay
    \/ ComputeForDisplay
    \/ CallDisplayGame
    \/ DropStats

SpecDisplay == Init /\ [][NextDisplay]_vars

\* ------------------------------------------------------------------ C18

\* C18: rendering does not change the statistics it is given: after
\* display_game(games, player_to_stats) returns, player_to_stats has the
\* keys and entries it had before the call, the team player's id among
\* them, and a second display_game call on the same mapping renders the
\* team row again instead of failing.
C18_DisplayLeavesTheMapping ==
    (displayed.fn = "display_game" /\ games # <<>>) =>
        /\ displayed.raised = "no"
        /\ held.player_to_stats = displayed.before
        /\ TEAM_PLAYER_ID \in DOMAIN held.player_to_stats
        /\ displayed.rows # <<>>
        /\ displayed.rows[1] = TEAM_PLAYER_ID

====
